---- MODULE Spec2Model ----
(***************************************************************************)
(* Rustle: the breadth-first crawler of src/spider.rs (Crawler), with the   *)
(* sites and domains tables of src/site.rs, src/domain.rs, src/database.rs. *)
(*                                                                          *)
(* One behaviour is a sequence of runs of Crawler::crawl against one store. *)
(* The web (page contents, robots.txt bodies) is fixed by Init; the network *)
(* may fail any single request.  Within a level of iterate_links the        *)
(* frontier is split into chunks (rayon par_iter), each chunk is folded in  *)
(* order by one worker, and the workers' steps interleave.  The clock has  *)
(* a resolution of 12 hours: it stands still inside a run and advances      *)
(* between runs.                                                            *)
(***************************************************************************)
EXTENDS Integers, FiniteSets, Sequences, TLC

\* ------------------------------------------------------------------ bounds
MaxDepth   == 2     \* recursion_depth is drawn from 0..MaxDepth
MaxWorkers == 2     \* chunks a level's frontier is split into
MaxTime    == 3     \* the clock takes the values 0..MaxTime
MaxLen     == 2     \* a URL, a link or a robots body has at most MaxLen characters
MaxLinks   == 2     \* a written Site has at most MaxLinks links
MaxWrites  == 3     \* writes in a sequence of Site::write_into calls

\* chrono::Duration::days(1), in clock units of 12 hours
Day == 2

\* ------------------------------------------------------------------ the web
\* A URL is written without its scheme; scheme[u] holds the scheme of u.
origin_url == "//a.test"
P1 == "//a.test/p1"
P2 == "//b.test/p2"
Urls == {origin_url, P1, P2}

Hosts == {"a.test", "b.test"}

\* Url::parse(url).host_str()
Host(u) == IF u = P2 THEN "b.test" ELSE "a.test"

\* The link graphs the runs are checked on: every page links to any set of pages.
Graphs == [Urls -> SUBSET Urls]

\* A robots.txt body is modelled by the set of URLs its Rustle section disallows;
\* {} is the empty body.  A host's robots.txt speaks of that host's paths only.
RobotsBodies ==
    {f \in [Hosts -> SUBSET Urls] :
        \A h \in Hosts : f[h] \subseteq {u \in Urls \ {origin_url} : Host(u) = h}}

\* The link graphs of the runs that are repeated: the origin links to any set of
\* pages, every other page has at most one link
RerunGraphs == {g \in Graphs : \A u \in Urls \ {origin_url} : Cardinality(g[u]) <= 1}

\* The runs of crawl() against the same store
Runs == {1, 2}

VARIABLES
    links,            \* page contents: the normalized links get_links finds on each page
    scheme,           \* Url::parse(url).scheme() of each URL
    robotsTxt,        \* robots.txt body served by each host
    recursion_depth,  \* Crawler.recursion_depth
    now,              \* Utc::now()
    sites,            \* rows of table sites
    domains,          \* rows of table domains
    setup,            \* outcome of Database::setup: "pending", "ok" or "failed"
    pc,               \* position of crawl()
    run,              \* number of the current run
    urls,             \* crawl(): links of the origin page
    depth,            \* iterate_links: depth
    visited_urls,     \* iterate_links: visited_urls
    new_urls,         \* iterate_links: new_urls
    workers,          \* the chunks of the current level, each with its fold accumulator
    summary,          \* counts emitted by summarize_*_table, <<>> before
    hist,             \* history of the current run (not program state)
    rt                \* a record on its way through write_into and read_into

vars == <<links, scheme, robotsTxt, recursion_depth, now, sites, domains, setup, pc,
          run, urls, depth, visited_urls, new_urls, workers, summary, hist, rt>>

web == <<links, scheme, robotsTxt, recursion_depth, rt>>
loop == <<depth, visited_urls, new_urls>>

\* ------------------------------------------------------------------ the store
\* A write that leaves the new row alone in the table
Site_write_alone(table, site) ==
    {site}

\* Site::write_into: INSERT OR REPLACE INTO sites, keyed on url
Site_write_into(table, site) ==
    {r \in table : r.url # site.url} \cup {site}

\* Site::read_into: the rows SELECT ... WHERE url = '...' returns
Site_read_into(table, url) ==
    {r \in table : r.url = url}

\* An INSERT that keeps the rows already there
Domain_insert(table, dom) ==
    table \cup {dom}

\* Domain::write_into: INSERT OR REPLACE INTO domains, keyed on domain
Domain_write_into(table, dom) ==
    {r \in table : r.domain # dom.domain} \cup {dom}

\* A lookup that finds only the rows newer than one day
Domain_read_fresh(table, domain) ==
    {r \in table : r.domain = domain /\ r.crawl_time > now - Day}

\* Domain::read_into: the rows SELECT ... WHERE domain = '...' returns
Domain_read_into(table, domain) ==
    {r \in table : r.domain = domain}

\* Crawler::write_site: a Site stamped with Utc::now()
write_site(table, url, links_to, t) ==
    Site_write_into(table, [url |-> url, crawl_time |-> t, links_to |-> links_to])

\* Crawler::write_domain: a Domain stamped with Utc::now()
write_domain(table, domain, robots, t) ==
    Domain_write_into(table, [domain |-> domain, crawl_time |-> t, robots |-> robots])

\* A stored crawl_time that is not an RFC 3339 timestamp
Garbled == 0 - 1

\* DateTime::parse_from_rfc3339 on a stored crawl_time: Ok on what to_rfc3339
\* wrote (the clock value), Err on anything else
parse_from_rfc3339_ok(text) == text >= 0

\* Site::read_into returns Ok: no row for the URL, or a row whose crawl_time parses
Site_read_ok(table, url) ==
    \A r \in Site_read_into(table, url) : parse_from_rfc3339_ok(r.crawl_time)

\* A get_html that accepts every scheme
AnyScheme(s) == TRUE

\* get_html: the scheme check before the request
SchemeSupported(s) == s \in {"http", "https"}

\* A freshness check that counts a record of exactly one day as fresh
should_skip_inclusive(table, url, t) ==
    \E site \in Site_read_into(table, url) : site.crawl_time >= t - Day

\* Crawler::should_skip_cached_url: a row exists and is newer than one day
should_skip_cached_url(table, url, t) ==
    \E site \in Site_read_into(table, url) : site.crawl_time > t - Day

\* SimpleMatcher::check_path on the Rustle section of a robots body
check_path(robots, url) == url \notin robots

\* ------------------------------------------------------------------ the level
\* A loop condition that lets one more level through
LoopGuardLate(d, limit, frontier) ==
    ~(d > limit) /\ frontier # {}

\* A loop condition that stops one level early
LoopGuardEarly(d, limit, frontier) ==
    ~(d + 1 >= limit) /\ frontier # {}

\* The loop condition of iterate_links
LoopGuard(d, limit, frontier) ==
    ~(d >= limit) /\ frontier # {}

\* A gate that drops on either condition
GateDropsEither(skip, allowed) ==
    skip \/ ~allowed

\* The per-URL gate of iterate_links: drop the URL (return None)
GateDrops(skip, allowed) ==
    skip /\ ~allowed

\* One step of the fold closure on Some((url, links)); out is history, the plain
\* union of the outbound sets
FoldSome(acc, url, lks) ==
    LET visited == acc.visited \cup {url}
    IN  [visited |-> visited,
         new     |-> acc.new \cup (lks \ visited),
         out     |-> acc.out \cup lks]

\* The reduce closure over the workers' pairs
Reduce(ws) ==
    [visited |-> UNION {w.acc.visited : w \in ws},
     new     |-> UNION {w.acc.new : w \in ws},
     out     |-> UNION {w.acc.out : w \in ws}]

\* The orders in which one chunk can hold the URLs of S
Orders(S) ==
    {q \in [1..Cardinality(S) -> S] : \A i, j \in 1..Cardinality(S) : q[i] = q[j] => i = j}

\* A split that hands the whole frontier to each of two workers
SplitsShared(frontier) ==
    {{o1, o2} : o1, o2 \in Orders(frontier)}

\* The ways par_iter can split a frontier into at most MaxWorkers ordered chunks
Splits(frontier) ==
    LET Blocks == SUBSET frontier \ {{}}
        Parts  == {P \in SUBSET Blocks :
                      /\ Cardinality(P) <= MaxWorkers
                      /\ UNION P = frontier
                      /\ \A B, C \in P : B # C => B \cap C = {}}
    IN  UNION {{{f[B] : B \in P} : f \in {g \in [P -> UNION {Orders(B) : B \in Blocks}] :
                                              \A B \in P : g[B] \in Orders(B)}} : P \in Parts}

EmptyAcc == [visited |-> {}, new |-> {}, out |-> {}]

\* A worker at the start of its chunk
NewWorker(chunk) ==
    [todo |-> chunk, st |-> "gate", acc |-> EmptyAcc, gated |-> {}]

\* The worker after the item at the head of its chunk is folded
Advance(w, acc, g) ==
    [todo  |-> Tail(w.todo),
     st    |-> IF Len(w.todo) = 1 THEN "done" ELSE "gate",
     acc   |-> acc,
     gated |-> w.gated \cup g]

\* ------------------------------------------------------------------ history
NewHist(table, t) ==
    [handed     |-> [u \in Urls |-> 0],  \* calls of fetch_and_process_links per URL
     wrote      |-> {},                  \* <<level, url>> whose SiteRecord was written
     dropped    |-> {},                  \* <<level, url>> the gate dropped
     failed     |-> {},                  \* <<level, url>> whose get_html returned None
     frontier   |-> {},                  \* <<level, url>> handed to par_iter
     started    |-> {},                  \* <<level, url>> whose gate check began
     finished   |-> {},                  \* <<level, url>> whose map and fold completed
     robotsWrote |-> {},                 \* <<level, url>> whose get_robots led to write_domain
     robotsNone |-> {},                  \* <<level, url>> whose get_robots returned None
     status     |-> {},                  \* <<level, url>> answered with a non-2xx status
     writeFailed |-> {},                 \* <<level, url>> whose INSERT failed to execute
     readFailed |-> {},                  \* <<level, url>> whose Site::read_into returned Err
     iterations |-> 0,                   \* bodies of the level loop executed
     sitesAtStart |-> table,             \* table sites when the run started
     runStart   |-> t]                   \* clock when the run started

\* ------------------------------------------------------------------ Init
Init ==
    /\ links \in Graphs
    /\ scheme = [u \in Urls |-> "https"]
    /\ robotsTxt \in RobotsBodies
    /\ recursion_depth \in 0..MaxDepth
    /\ now = 0
    /\ sites = {}
    /\ domains = {}
    /\ setup = "pending"
    /\ pc = "init"
    /\ run = 1
    /\ urls = {}
    /\ depth = 0
    /\ visited_urls = {}
    /\ new_urls = {}
    /\ workers = {}
    /\ summary = <<>>
    /\ hist = NewHist({}, 0)
    /\ rt = <<>>

\* ------------------------------------------------------------------ crawl()
\* Database::setup
Setup ==
    /\ pc = "init"
    /\ setup' = "ok"
    /\ pc' = "seed"
    /\ UNCHANGED <<web, now, sites, domains, run, urls, loop, workers, summary, hist>>

\* get_html(origin_url) succeeds: get_links and write_site of the origin
SeedFetchOk ==
    /\ pc = "seed"
    /\ SchemeSupported(scheme[origin_url])
    /\ setup = "ok"
    /\ urls' = links[origin_url]
    /\ sites' = write_site(sites, origin_url, urls', now)
    /\ hist' = [hist EXCEPT !.wrote = @ \cup {<<0, origin_url>>}]
    /\ pc' = "robots"
    /\ UNCHANGED <<web, setup, now, domains, run, loop, workers, summary>>

\* get_html(origin_url) returns None: crawl() returns
SeedFetchFail ==
    /\ pc = "seed"
    /\ hist' = [hist EXCEPT !.failed = @ \cup {<<0, origin_url>>}]
    /\ pc' = "done"
    /\ UNCHANGED <<web, setup, now, sites, domains, run, urls, loop, workers, summary>>

\* get_robots for the origin's host, then the head of iterate_links
SeedRobots ==
    /\ pc = "robots"
    /\ \E ok \in BOOLEAN :
          /\ domains' = IF ok THEN write_domain(domains, Host(origin_url),
                                                robotsTxt[Host(origin_url)], now)
                        ELSE domains
          /\ hist' = IF ok THEN [hist EXCEPT !.robotsWrote = @ \cup {<<0, origin_url>>}]
                     ELSE [hist EXCEPT !.robotsNone = @ \cup {<<0, origin_url>>}]
    /\ visited_urls' = {origin_url}
    /\ new_urls' = urls \ {origin_url}
    /\ depth' = 0
    /\ pc' = "iterate"
    /\ UNCHANGED <<web, setup, now, sites, run, urls, workers, summary>>

\* The loop condition holds: the frontier is handed to par_iter
LevelStart ==
    /\ pc = "iterate"
    /\ LoopGuard(depth, recursion_depth, new_urls)
    /\ \E split \in Splits(new_urls) : workers' = {NewWorker(c) : c \in split}
    /\ hist' = [hist EXCEPT !.iterations = @ + 1,
                            !.frontier = @ \cup {<<depth + 1, u>> : u \in new_urls}]
    /\ pc' = "level"
    /\ UNCHANGED <<web, setup, now, sites, domains, run, urls, loop, summary>>

\* The loop condition fails: iterate_links returns
LoopExit ==
    /\ pc = "iterate"
    /\ ~LoopGuard(depth, recursion_depth, new_urls)
    /\ pc' = "summarize"
    /\ UNCHANGED <<web, setup, now, sites, domains, run, urls, loop, workers, summary, hist>>

\* The worker after the gate has decided on the URL at the head of its chunk;
\* g is the record of what the gate saw
AfterGate(w, g) ==
    IF GateDrops(g.skip, g.allowed # "no")
    THEN Advance(w, w.acc, {g})
    ELSE [w EXCEPT !.st = "fetch", !.gated = @ \cup {g}]

\* should_skip_cached_url, and is_allowed_to_scrape up to Domain::read_into
TaskGate(w) ==
    /\ pc = "level"
    /\ w.st = "gate"
    /\ Site_read_ok(sites, Head(w.todo))
    /\ LET u    == Head(w.todo)
           skip == should_skip_cached_url(sites, u, now)
           rows == Domain_read_into(domains, Host(u))
           g    == [url |-> u, skip |-> skip,
                    allowed |-> IF ~skip THEN "unevaluated"
                                ELSE IF \E d \in rows : check_path(d.robots, u)
                                     THEN "yes" ELSE "no"]
       IN  IF skip /\ rows = {}
           THEN /\ workers' = (workers \ {w}) \cup {[w EXCEPT !.st = "robots"]}
                /\ hist' = [hist EXCEPT !.started = @ \cup {<<depth + 1, u>>}]
           ELSE /\ workers' = (workers \ {w}) \cup {AfterGate(w, g)}
                /\ hist' = [hist EXCEPT
                      !.started  = @ \cup {<<depth + 1, u>>},
                      !.dropped  = IF AfterGate(w, g).st # "fetch"
                                   THEN @ \cup {<<depth + 1, u>>} ELSE @,
                      !.finished = IF AfterGate(w, g).st # "fetch"
                                   THEN @ \cup {<<depth + 1, u>>} ELSE @]
    /\ UNCHANGED <<web, setup, now, sites, domains, pc, run, urls, loop, summary>>

\* is_allowed_to_scrape without a DomainRecord: get_robots, write_domain on
\* success, the match on the body (the empty body when get_robots returns None)
TaskRobots(w) ==
    /\ pc = "level"
    /\ w.st = "robots"
    /\ \E ok \in BOOLEAN :
          LET u      == Head(w.todo)
              robots == IF ok THEN robotsTxt[Host(u)] ELSE {}
              g      == [url |-> u, skip |-> TRUE,
                         allowed |-> IF check_path(robots, u) THEN "yes" ELSE "no"]
          IN  /\ domains' = IF ok THEN write_domain(domains, Host(u), robots, now)
                            ELSE domains
              /\ workers' = (workers \ {w}) \cup {AfterGate(w, g)}
              /\ hist' = [hist EXCEPT
                    !.robotsWrote = IF ok THEN @ \cup {<<depth + 1, u>>} ELSE @,
                    !.robotsNone  = IF ok THEN @ ELSE @ \cup {<<depth + 1, u>>},
                    !.dropped  = IF AfterGate(w, g).st # "fetch"
                                 THEN @ \cup {<<depth + 1, u>>} ELSE @,
                    !.finished = IF AfterGate(w, g).st # "fetch"
                                 THEN @ \cup {<<depth + 1, u>>} ELSE @]
    /\ UNCHANGED <<web, setup, now, sites, pc, run, urls, loop, summary>>

\* fetch_and_process_links: get_html succeeds
TaskFetchOk(w) ==
    /\ pc = "level"
    /\ w.st = "fetch"
    /\ SchemeSupported(scheme[Head(w.todo)])
    /\ workers' = (workers \ {w}) \cup {[w EXCEPT !.st = "write"]}
    /\ hist' = [hist EXCEPT !.handed[Head(w.todo)] = @ + 1]
    /\ UNCHANGED <<web, setup, now, sites, domains, pc, run, urls, loop, summary>>

\* A failed fetch that records the URL with no links
FailedFetchWrites(table, url, t) ==
    write_site(table, url, {}, t)

\* Table sites after fetch_and_process_links got None from get_html: it returns
\* before write_site
FailedFetchTable(table, url, t) ==
    table

\* fetch_and_process_links: get_html returns None, the links are the empty set
TaskFetchFail(w) ==
    /\ pc = "level"
    /\ w.st = "fetch"
    /\ LET u == Head(w.todo)
       IN  /\ sites' = FailedFetchTable(sites, u, now)
           /\ workers' = (workers \ {w}) \cup {Advance(w, FoldSome(w.acc, u, {}), {})}
           /\ hist' = [hist EXCEPT !.handed[u] = @ + 1,
                                   !.failed = @ \cup {<<depth + 1, u>>},
                                   !.finished = @ \cup {<<depth + 1, u>>}]
    /\ UNCHANGED <<web, setup, now, domains, pc, run, urls, loop, summary>>

\* fetch_and_process_links: get_links, write_site; then the fold step
TaskWrite(w) ==
    /\ pc = "level"
    /\ w.st = "write"
    /\ setup = "ok"
    /\ LET u == Head(w.todo)
       IN  /\ sites' = write_site(sites, u, links[u], now)
           /\ workers' = (workers \ {w}) \cup {Advance(w, FoldSome(w.acc, u, links[u]), {})}
           /\ hist' = [hist EXCEPT !.wrote = @ \cup {<<depth + 1, u>>},
                                   !.finished = @ \cup {<<depth + 1, u>>}]
    /\ UNCHANGED <<web, setup, now, domains, pc, run, urls, loop, summary>>

\* A reduce that returns as soon as one worker is done
SomeDone(ws) ==
    \E w \in ws : w.st = "done"

\* Every worker has folded its chunk
AllDone(ws) ==
    \A w \in ws : w.st = "done"

\* reduce, then the update of the loop variables
LevelEnd ==
    /\ pc = "level"
    /\ AllDone(workers)
    /\ LET r == Reduce(workers)
       IN  /\ visited_urls' = visited_urls \cup r.visited
           /\ new_urls' = r.new
    /\ depth' = depth + 1
    /\ workers' = {}
    /\ pc' = "iterate"
    /\ UNCHANGED <<web, setup, now, sites, domains, run, urls, summary, hist>>

\* summarize_site_table and summarize_domain_table
Summarize ==
    /\ pc = "summarize"
    /\ summary' = <<Cardinality(sites), Cardinality(domains)>>
    /\ pc' = "done"
    /\ UNCHANGED <<web, setup, now, sites, domains, run, urls, loop, workers, hist>>

\* The binary is started again with the same configuration and store
NextRun ==
    /\ pc = "done"
    /\ run + 1 \in Runs
    /\ run' = run + 1
    /\ pc' = "init"
    /\ urls' = {}
    /\ depth' = 0
    /\ visited_urls' = {}
    /\ new_urls' = {}
    /\ summary' = <<>>
    /\ hist' = NewHist(sites, now)
    /\ setup' = "pending"
    /\ UNCHANGED <<web, now, sites, domains, workers>>

\* Time passes between two runs
Tick ==
    /\ pc = "done"
    /\ run + 1 \in Runs
    /\ now < MaxTime
    /\ now' = now + 1
    /\ UNCHANGED <<web, setup, sites, domains, pc, run, urls, loop, workers, summary, hist>>

Next ==
    \/ Setup
    \/ SeedFetchOk
    \/ SeedFetchFail
    \/ SeedRobots
    \/ LevelStart
    \/ LoopExit
    \/ \E w \in workers : TaskGate(w)
    \/ \E w \in workers : TaskRobots(w)
    \/ \E w \in workers : TaskFetchOk(w)
    \/ \E w \in workers : TaskFetchFail(w)
    \/ \E w \in workers : TaskWrite(w)
    \/ LevelEnd
    \/ Summarize

\* One run of crawl() on an empty store, over every link graph
Spec == Init /\ [][Next]_vars

InitRerun ==
    /\ Init
    /\ links \in RerunGraphs

NextRerun ==
    \/ Next
    \/ NextRun
    \/ Tick

\* Repeated runs against the same store, with time passing between them
SpecRerun == InitRerun /\ [][NextRerun]_vars

\* ------------------------------------------------------------------ faults
\* Database::setup fails to execute CREATE TABLE: the Results are discarded and
\* crawl() goes on
SetupFail ==
    /\ pc = "init"
    /\ setup' = "failed"
    /\ pc' = "seed"
    /\ UNCHANGED <<web, now, sites, domains, run, urls, loop, workers, summary, hist>>

\* get_html(origin_url) succeeds and write_site fails to execute: the unwrap in
\* Site::write_into panics
SeedWritePanic ==
    /\ pc = "seed"
    /\ SchemeSupported(scheme[origin_url])
    /\ urls' = links[origin_url]
    /\ hist' = [hist EXCEPT !.writeFailed = @ \cup {<<0, origin_url>>}]
    /\ pc' = "panicked"
    /\ UNCHANGED <<web, setup, now, sites, domains, run, loop, workers, summary>>

\* Site::read_into returns Err on the stored crawl_time: the unwrap on
\* should_skip_cached_url panics in the worker
TaskGatePanic(w) ==
    /\ pc = "level"
    /\ w.st = "gate"
    /\ ~Site_read_ok(sites, Head(w.todo))
    /\ workers' = (workers \ {w}) \cup {[w EXCEPT !.st = "panicked"]}
    /\ hist' = [hist EXCEPT !.started = @ \cup {<<depth + 1, Head(w.todo)>>},
                            !.readFailed = @ \cup {<<depth + 1, Head(w.todo)>>}]
    /\ UNCHANGED <<web, setup, now, sites, domains, pc, run, urls, loop, summary>>

\* get_html on a response with a non-2xx status: the status is never looked at,
\* the body is read and returned like any page
TaskFetchStatus(w) ==
    /\ pc = "level"
    /\ w.st = "fetch"
    /\ SchemeSupported(scheme[Head(w.todo)])
    /\ workers' = (workers \ {w}) \cup {[w EXCEPT !.st = "write"]}
    /\ hist' = [hist EXCEPT !.handed[Head(w.todo)] = @ + 1,
                            !.status = @ \cup {<<depth + 1, Head(w.todo)>>}]
    /\ UNCHANGED <<web, setup, now, sites, domains, pc, run, urls, loop, summary>>

\* write_site fails to execute: the unwrap in Site::write_into panics in the worker
TaskWritePanic(w) ==
    /\ pc = "level"
    /\ w.st = "write"
    /\ workers' = (workers \ {w}) \cup {[w EXCEPT !.st = "panicked"]}
    /\ hist' = [hist EXCEPT !.writeFailed = @ \cup {<<depth + 1, Head(w.todo)>>}]
    /\ UNCHANGED <<web, setup, now, sites, domains, pc, run, urls, loop, summary>>

\* The panic of a worker leaves par_iter and unwinds crawl(); the other workers
\* have got as far as they have
Abort ==
    /\ pc = "level"
    /\ \E w \in workers : w.st = "panicked"
    /\ pc' = "panicked"
    /\ UNCHANGED <<web, setup, now, sites, domains, run, urls, loop, workers, summary, hist>>

\* The schemes of the run's URLs: at most one of them is not http or https
Schemes ==
    {[u \in Urls |-> IF u \in F THEN "ftp" ELSE "https"] :
        F \in {G \in SUBSET Urls : Cardinality(G) <= 1}}

\* What an earlier writer can have left in table sites: nothing, or a row whose
\* crawl_time is not a timestamp
StoresLeft ==
    {{}} \cup {{[url |-> u, crawl_time |-> Garbled, links_to |-> {}]} : u \in Urls}

InitFaults ==
    /\ links \in RerunGraphs
    /\ scheme \in Schemes
    /\ robotsTxt \in RobotsBodies
    /\ recursion_depth \in 0..MaxDepth
    /\ now = 0
    /\ sites \in StoresLeft
    /\ domains = {}
    /\ setup = "pending"
    /\ pc = "init"
    /\ run = 1
    /\ urls = {}
    /\ depth = 0
    /\ visited_urls = {}
    /\ new_urls = {}
    /\ workers = {}
    /\ summary = <<>>
    /\ hist = NewHist(sites, 0)
    /\ rt = <<>>

NextFaults ==
    \/ Next
    \/ SetupFail
    \/ SeedWritePanic
    \/ \E w \in workers : TaskGatePanic(w)
    \/ \E w \in workers : TaskFetchStatus(w)
    \/ \E w \in workers : TaskWritePanic(w)
    \/ Abort

\* One run of crawl() in which the store and the network can fail
SpecFaults == InitFaults /\ [][NextFaults]_vars

\* ------------------------------------------------------------------ claims
\* The URLs whose shortest link distance from the origin is at most k
RECURSIVE Within(_)
Within(k) ==
    IF k = 0 THEN {origin_url}
    ELSE Within(k - 1) \cup UNION {links[u] : u \in Within(k - 1)}

\* The URLs of the pairs <<level, url>> of a history set
UrlsOf(pairs) == {p[2] : p \in pairs}

\* C1: in one run every URL is processed at most once: the origin by crawl() at
\* depth 0 only, every other URL by at most one call of fetch_and_process_links.
C1_ProcessedOnce ==
    \A u \in Urls : hist.handed[u] <= (IF u = origin_url THEN 0 ELSE 1)

\* C2: when a level ends, the next frontier is the union of the outbound link sets
\* of the URLs processed in the level, minus the cumulative visited set.
C2_FrontierAlgebra ==
    [][(pc = "level" /\ pc' = "iterate")
         => new_urls' = Reduce(workers).out \ visited_urls']_vars

\* C3: in a run after the first, a URL whose SiteRecord was less than 24 hours old
\* when the run started, and which robots.txt allows, is not fetched and its record
\* is not written again.
C3_FreshNotRewritten ==
    run > 1 =>
        \A r \in hist.sitesAtStart :
            (hist.runStart < r.crawl_time + Day /\ check_path(robotsTxt[Host(r.url)], r.url))
                => /\ r \in sites
                   /\ r.url \notin UrlsOf(hist.wrote)
                   /\ hist.handed[r.url] = 0

StepsLeft(w) ==
    IF w.st = "done" THEN 0
    ELSE 4 * (Len(w.todo) - 1)
         + (CASE w.st = "gate" -> 4 [] w.st = "robots" -> 3
              [] w.st = "fetch" -> 2 [] w.st = "write" -> 1)

RECURSIVE SumStepsLeft(_)
SumStepsLeft(ws) ==
    IF ws = {} THEN 0
    ELSE LET w == CHOOSE x \in ws : TRUE
         IN  StepsLeft(w) + SumStepsLeft(ws \ {w})

\* The steps one level can take: its start, four per URL, its end
LevelCost == 4 * Cardinality(Urls) + 2

\* A bound on the steps a run can still take
Rank ==
    CASE pc = "init"      -> recursion_depth * LevelCost + 5
      [] pc = "seed"      -> recursion_depth * LevelCost + 4
      [] pc = "robots"    -> recursion_depth * LevelCost + 3
      [] pc = "iterate"   -> (recursion_depth - depth) * LevelCost + 2
      [] pc = "level"     -> (recursion_depth - depth - 1) * LevelCost + 3
                             + SumStepsLeft(workers)
      [] pc = "summarize" -> 1
      [] pc = "done"      -> 0

\* C5: on every link graph the body of the level loop runs at most recursion_depth
\* times, and a run whose calls all return ends: it is never stuck before the end
\* of crawl(), and every step lowers a bound on the steps that are left.
C5_Terminates ==
    /\ [](hist.iterations <= recursion_depth)
    /\ [](Rank >= 0 /\ (pc # "done" => ENABLED Next))
    /\ [][Rank' < Rank]_vars

\* C5 witness: on a graph with a cycle the loop ran recursion_depth times and
\* stopped with a frontier left.
C5_Witness ==
    /\ pc = "done"
    /\ recursion_depth = MaxDepth
    /\ hist.iterations = recursion_depth
    /\ new_urls # {}
    /\ \E u \in Urls \ {origin_url} : u \in links[origin_url] /\ origin_url \in links[u]

\* C6: when a run on an empty store in which every get_html succeeded has ended,
\* every URL within recursion_depth links of the origin has a SiteRecord.
C6_AllWithinDepth ==
    (pc = "done" /\ run = 1 /\ hist.failed = {})
        => \A u \in Within(recursion_depth) : Site_read_into(sites, u) # {}

\* C6 witness: such a run ended with a URL at distance 2 recorded after a level of
\* two URLs.
C6_Witness ==
    /\ pc = "done"
    /\ hist.failed = {}
    /\ recursion_depth = 2
    /\ Within(1) = {origin_url, P1}
    /\ Within(2) = Urls
    /\ Site_read_into(sites, P2) # {}

\* C7: a run fetches and records no URL that is more than recursion_depth links away
\* from the origin.
C7_NoneBeyondDepth ==
    \A u \in Urls :
        (hist.handed[u] > 0 \/ u \in UrlsOf(hist.wrote)) => u \in Within(recursion_depth)

\* C7 witness: a run ended after its last level fetched a page that links to a URL
\* beyond the depth limit.
C7_Witness ==
    /\ pc = "done"
    /\ recursion_depth >= 1
    /\ hist.iterations = recursion_depth
    /\ \E p \in hist.wrote :
          /\ p[1] = recursion_depth
          /\ \E u \in links[p[2]] : u \notin Within(recursion_depth)

\* C8: no gate check of a level begins before every URL of the earlier levels has
\* been through its map and fold, and the freshness check of a level sees every
\* SiteRecord the run wrote in the earlier levels.
C8_Barrier ==
    /\ \A s \in hist.started : \A f \in hist.frontier :
          f[1] < s[1] => f \in hist.finished
    /\ \A w \in workers : \A g \in w.gated :
          (\E p \in hist.wrote : p[2] = g.url /\ p[1] <= depth) => g.skip

\* C8 witness: a level of two URLs in two chunks is over and the gate of level 2
\* has seen a record written in level 1.
C8_Witness ==
    /\ depth = 1
    /\ {<<1, P1>>, <<1, P2>>} \subseteq hist.wrote
    /\ \E w \in workers : \E g \in w.gated : g.url # origin_url /\ g.skip

\* C9: a URL whose get_html failed gets no SiteRecord from that attempt and keeps
\* the record it had; every other URL of a finished level was written, failed or
\* was dropped by the gate; and the run goes on: it ends only with the depth limit
\* reached or the frontier empty, and with the summary.
C9_FailureIsolated ==
    /\ hist.failed \cap hist.wrote = {}
    /\ \A u \in UrlsOf(hist.failed) \ UrlsOf(hist.wrote) :
          Site_read_into(sites, u) = Site_read_into(hist.sitesAtStart, u)
    /\ \A f \in hist.frontier :
          (f[1] <= depth \/ pc \in {"summarize", "done"})
              => f \in hist.wrote \cup hist.failed \cup hist.dropped
    /\ (pc = "done" /\ <<0, origin_url>> \notin hist.failed)
          => /\ summary # <<>>
             /\ hist.iterations = recursion_depth \/ new_urls = {}

\* C9 witness: in the second run one URL of a level of two failed and kept its
\* record of the first run, the other was written, and the run went on to a second
\* level and the summary.
C9_Witness ==
    /\ pc = "done"
    /\ run = 2
    /\ summary # <<>>
    /\ hist.iterations = 2
    /\ \E u, v \in Urls :
          /\ u # v
          /\ <<1, u>> \in hist.failed
          /\ u \notin UrlsOf(hist.wrote)
          /\ Site_read_into(sites, u) # {}
          /\ \A r \in Site_read_into(sites, u) : r.crawl_time < now
          /\ <<1, v>> \in hist.wrote

\* C10: a run whose failures are all non-fatal ends with the counts of site and
\* domain records emitted.
C10_SummaryEmitted ==
    pc = "done" => summary # <<>>

\* ------------------------------------------------------------------ the text of a row
\* Strings are sequences of characters; Quote is the single quote
Quote == "'"
Comma == ","
Chars == {"a", Quote}

Str(lo, hi) == UNION {[1..k -> Chars] : k \in lo..hi}

\* str::replace("'", "''")
Escape[s \in Seq(STRING)] ==
    IF s = <<>> THEN <<>>
    ELSE IF Head(s) = Quote THEN <<Quote, Quote>> \o Escape[Tail(s)]
    ELSE <<Head(s)>> \o Escape[Tail(s)]

\* str::replace("''", "'"): the matches are taken left to right and do not overlap
Collapse[s \in Seq(STRING)] ==
    IF Len(s) < 2 THEN s
    ELSE IF s[1] = Quote /\ s[2] = Quote THEN <<Quote>> \o Collapse[SubSeq(s, 3, Len(s))]
    ELSE <<s[1]>> \o Collapse[Tail(s)]

\* The text between the quotes of an SQL string literal is well formed: every
\* quote in it is doubled
SqlLiteralOk[s \in Seq(STRING)] ==
    IF s = <<>> THEN TRUE
    ELSE IF Head(s) = Quote
         THEN Len(s) >= 2 /\ s[2] = Quote /\ SqlLiteralOk[SubSeq(s, 3, Len(s))]
         ELSE SqlLiteralOk[Tail(s)]

\* The value SQLite reads from the text between the quotes of a string literal
SqlLiteralValue[s \in Seq(STRING)] ==
    IF s = <<>> THEN <<>>
    ELSE IF Head(s) = Quote THEN <<Quote>> \o SqlLiteralValue[SubSeq(s, 3, Len(s))]
    ELSE <<Head(s)>> \o SqlLiteralValue[Tail(s)]

\* [String]::join(",")
Join[q \in Seq(Seq(STRING))] ==
    IF q = <<>> THEN <<>>
    ELSE IF Len(q) = 1 THEN q[1]
    ELSE q[1] \o <<Comma>> \o Join[Tail(q)]

\* str::split(','), collected: the set of the pieces
Split[s \in Seq(STRING)] ==
    IF \A i \in 1..Len(s) : s[i] # Comma THEN {s}
    ELSE LET i == CHOOSE k \in 1..Len(s) : s[k] = Comma /\ \A j \in 1..(k - 1) : s[j] # Comma
         IN  {SubSeq(s, 1, i - 1)} \cup Split[SubSeq(s, i + 1, Len(s))]

\* str::trim
Trim[s \in Seq(STRING)] ==
    IF s = <<>> THEN s
    ELSE IF Head(s) = " " THEN Trim[Tail(s)]
    ELSE IF s[Len(s)] = " " THEN Trim[SubSeq(s, 1, Len(s) - 1)]
    ELSE s

\* DateTime::to_rfc3339 of a UTC instant
to_rfc3339(t) == [instant |-> t, offset |-> "+00:00"]

\* DateTime::parse_from_rfc3339(..).with_timezone(&Utc)
parse_from_rfc3339(text) == text.instant

\* Site::read_into: the links_to column turned back into a HashSet
parse_links_to(text) ==
    IF text = <<>> THEN {}
    ELSE {Trim[x] : x \in Split[Collapse[text]]}

\* An INSERT INTO sites that keeps the rows already there
Site_insert_sql(table, site, order) ==
    table \cup {[url        |-> SqlLiteralValue[Escape[site.url]],
                 crawl_time |-> to_rfc3339(site.crawl_time),
                 links_to   |-> SqlLiteralValue[Escape[Join[order]]]]}

\* Site::write_into on the text of the row; order is the order in which the
\* HashSet links_to is iterated
Site_write_sql(table, site, order) ==
    LET url_lit   == Escape[site.url]
        links_lit == Escape[Join[order]]
        row       == [url        |-> SqlLiteralValue[url_lit],
                      crawl_time |-> to_rfc3339(site.crawl_time),
                      links_to   |-> SqlLiteralValue[links_lit]]
    IN  {r \in table : r.url # row.url} \cup {row}

\* Site::read_into on the text of the row: the set of the Sites returned
Site_read_sql(table, url) ==
    LET key == SqlLiteralValue[Escape[url]]
    IN  {[url        |-> Collapse[url],
          crawl_time |-> parse_from_rfc3339(r.crawl_time),
          links_to   |-> parse_links_to(r.links_to)] :
            r \in {x \in table : x.url = key}}

\* Domain::write_into on the text of the row
Domain_write_sql(table, dom) ==
    LET row == [domain     |-> dom.domain,
                crawl_time |-> to_rfc3339(dom.crawl_time),
                robots     |-> SqlLiteralValue[Escape[dom.robots]]]
    IN  {r \in table : r.domain # row.domain} \cup {row}

\* Domain::read_into on the text of the row: the set of the Domains returned
Domain_read_sql(table, domain) ==
    {[domain     |-> domain,
      crawl_time |-> parse_from_rfc3339(r.crawl_time),
      robots     |-> Collapse[r.robots]] :
        r \in {x \in table : x.domain = domain}}

crawlvars == <<links, scheme, robotsTxt, recursion_depth, now, sites, domains, setup, pc,
               run, urls, depth, visited_urls, new_urls, workers, summary, hist>>

\* The Site and Domain values handed to write_into
SiteRecords ==
    {[url |-> u, crawl_time |-> t, links_to |-> l] :
        u \in Str(1, MaxLen), t \in 0..MaxTime,
        l \in {L \in SUBSET Str(1, MaxLen) : Cardinality(L) <= MaxLinks}}

DomainRecords ==
    {[domain |-> h, crawl_time |-> t, robots |-> b] :
        h \in Hosts, t \in 0..MaxTime, b \in Str(0, MaxLen)}

\* The link sets handed to join: members without a comma, the empty string and
\* members with whitespace at either end among them
LinkChars == {"a", " "}

LinkSets ==
    {[links_to |-> l] :
        l \in {L \in SUBSET UNION {[1..k -> LinkChars] : k \in 0..MaxLen} :
                  Cardinality(L) <= MaxLinks}}

InitText ==
    /\ links = [u \in Urls |-> {}]
    /\ scheme = [u \in Urls |-> "https"]
    /\ robotsTxt = [h \in Hosts |-> {}]
    /\ recursion_depth = 0
    /\ now = 0
    /\ sites = {}
    /\ domains = {}
    /\ setup = "ok"
    /\ pc = "store"
    /\ run = 1
    /\ urls = {}
    /\ depth = 0
    /\ visited_urls = {}
    /\ new_urls = {}
    /\ workers = {}
    /\ summary = <<>>
    /\ hist = NewHist({}, 0)
    /\ \E rec \in SiteRecords \cup DomainRecords \cup LinkSets :
          rt = [phase |-> "new", rec |-> rec, table |-> {}, back |-> {}]

\* site.write_into(&database)
WriteSite ==
    /\ rt.phase = "new"
    /\ rt.rec \in SiteRecords
    /\ \E order \in Orders(rt.rec.links_to) :
          /\ SqlLiteralOk[Escape[rt.rec.url]]
          /\ SqlLiteralOk[Escape[Join[order]]]
          /\ rt' = [rt EXCEPT !.phase = "written",
                              !.table = Site_write_sql(rt.table, rt.rec, order)]
    /\ UNCHANGED crawlvars

\* Site::read_into(&site.url, &database)
ReadSite ==
    /\ rt.phase = "written"
    /\ rt.rec \in SiteRecords
    /\ rt' = [rt EXCEPT !.phase = "read", !.back = Site_read_sql(rt.table, rt.rec.url)]
    /\ UNCHANGED crawlvars

\* domain.write_into(&database)
WriteDomain ==
    /\ rt.phase = "new"
    /\ rt.rec \in DomainRecords
    /\ SqlLiteralOk[Escape[rt.rec.robots]]
    /\ rt' = [rt EXCEPT !.phase = "written",
                        !.table = Domain_write_sql(rt.table, rt.rec)]
    /\ UNCHANGED crawlvars

\* Domain::read_into(&domain.domain, &database)
ReadDomain ==
    /\ rt.phase = "written"
    /\ rt.rec \in DomainRecords
    /\ rt' = [rt EXCEPT !.phase = "read", !.back = Domain_read_sql(rt.table, rt.rec.domain)]
    /\ UNCHANGED crawlvars

\* Site::write_into: links_to joined with commas
JoinLinks ==
    /\ rt.phase = "new"
    /\ rt.rec \in LinkSets
    /\ \E order \in Orders(rt.rec.links_to) :
          rt' = [rt EXCEPT !.phase = "written", !.table = {[links_to |-> Join[order]]}]
    /\ UNCHANGED crawlvars

\* Site::read_into: the joined string split again
ParseLinks ==
    /\ rt.phase = "written"
    /\ rt.rec \in LinkSets
    /\ rt' = [rt EXCEPT !.phase = "read",
                        !.back = {[links_to |-> parse_links_to(r.links_to)] : r \in rt.table}]
    /\ UNCHANGED crawlvars

NextText ==
    \/ WriteSite
    \/ ReadSite
    \/ WriteDomain
    \/ ReadDomain
    \/ JoinLinks
    \/ ParseLinks

\* A record written to an empty store and read back
SpecText == InitText /\ [][NextText]_vars

\* ------------------------------------------------------------------ the upsert
\* The state with no crawl under way, for the specifications of single functions
CrawlIdle ==
    /\ links = [u \in Urls |-> {}]
    /\ scheme = [u \in Urls |-> "https"]
    /\ robotsTxt = [h \in Hosts |-> {}]
    /\ recursion_depth = 0
    /\ now = 0
    /\ sites = {}
    /\ domains = {}
    /\ setup = "ok"
    /\ pc = "store"
    /\ run = 1
    /\ urls = {}
    /\ depth = 0
    /\ visited_urls = {}
    /\ new_urls = {}
    /\ workers = {}
    /\ summary = <<>>
    /\ hist = NewHist({}, 0)

UpsertTimes == {0, 1}

\* The Sites written in a sequence of writes: two urls, one of them a quote
UpsertSites ==
    {[url |-> u, crawl_time |-> t, links_to |-> l] :
        u \in Str(1, 1), t \in UpsertTimes,
        l \in {L \in SUBSET Str(1, 1) : Cardinality(L) <= MaxLinks}}

InitUpsert ==
    /\ CrawlIdle
    /\ rt = [log |-> <<>>, tables |-> <<{}>>]

\* The table after the writes so far
UpsertTable == rt.tables[Len(rt.tables)]

\* site.write_into(&database) for any Site, the one written last among them
UpsertWrite ==
    /\ Len(rt.log) < MaxWrites
    /\ \E site \in UpsertSites : \E order \in Orders(site.links_to) :
          rt' = [log    |-> Append(rt.log, site),
                 tables |-> Append(rt.tables, Site_write_sql(UpsertTable, site, order))]
    /\ UNCHANGED crawlvars

NextUpsert ==
    \/ UpsertWrite

\* A sequence of Site::write_into calls on an empty table
SpecUpsert == InitUpsert /\ [][NextUpsert]_vars

\* ------------------------------------------------------------------ the links of a page
\* A URL or an href is the sequence of its parts: a scheme with its colon, a
\* slash, a host, a path segment, a hash sign. No part is the beginning of
\* another, so two sequences are equal exactly when the strings are.
HostParts == {"a.test", "b.test"}

\* The origin URLs a crawler is constructed with: with and without the final slash
Origins ==
    {[host |-> h, text |-> <<"https:", "/", "/", h>> \o slash] :
        h \in HostParts, slash \in {<<>>, <<"/">>}}

\* The hrefs of a page, each with the form it was written in
Hrefs ==
    {[kind |-> "absolute", host |-> h, path |-> <<"/", "b">>,
      text |-> <<"https:", "/", "/", h, "/", "b">>] : h \in HostParts}
    \cup {[kind |-> "scheme-relative", host |-> h, path |-> <<"/", "b">>,
           text |-> <<"/", "/", h, "/", "b">>] : h \in HostParts}
    \cup {[kind |-> "root-relative", host |-> "", path |-> <<"/", "b">>,
           text |-> <<"/", "b">>],
          [kind |-> "mailto", host |-> "", path |-> <<>>, text |-> <<"mailto:", "b">>],
          [kind |-> "fragment", host |-> "", path |-> <<>>, text |-> <<"#", "b">>],
          [kind |-> "path-relative", host |-> "", path |-> <<>>, text |-> <<"b">>]}

Pages == {page \in SUBSET Hrefs : Cardinality(page) <= MaxLinks}

\* Url::parse(url) on the hrefs above: Ok when the text begins with a scheme;
\* has_host when an authority follows the scheme
UrlParse(url) ==
    [ok       |-> url # <<>> /\ Head(url) \in {"https:", "mailto:"},
     has_host |-> /\ Len(url) >= 4
                  /\ url[1] = "https:" /\ url[2] = "/" /\ url[3] = "/"
                  /\ url[4] \in HostParts]

\* A normalize_url that returns every URL that parses
normalize_url_parsed(origin, url) ==
    IF UrlParse(url).ok THEN {url}
    ELSE IF Len(url) >= 2 /\ url[1] = "/" /\ url[2] = "/" THEN {<<"https:">> \o url}
    ELSE IF Len(url) >= 1 /\ url[1] = "/" THEN {origin \o url}
    ELSE {}

\* Crawler::normalize_url: the set holding the Some value, empty for None
normalize_url(origin, url) ==
    IF UrlParse(url).ok
    THEN IF UrlParse(url).has_host THEN {url} ELSE {}
    ELSE IF Len(url) >= 2 /\ url[1] = "/" /\ url[2] = "/" THEN {<<"https:">> \o url}
    ELSE IF Len(url) >= 1 /\ url[1] = "/" THEN {origin \o url}
    ELSE {}

\* Crawler::get_links on a page with these hrefs
get_links(origin, page) ==
    UNION {normalize_url(origin, h.text) : h \in page}

InitLinks ==
    /\ CrawlIdle
    /\ \E o \in Origins, page \in Pages :
          rt = [phase |-> "fetched", origin |-> o, page |-> page, site |-> <<>>]

\* crawl() on the origin page: get_links, then write_site
ProcessLinks ==
    /\ rt.phase = "fetched"
    /\ rt' = [rt EXCEPT !.phase = "written",
                        !.site = [url |-> rt.origin.text,
                                  links_to |-> get_links(rt.origin.text, rt.page)]]
    /\ UNCHANGED crawlvars

NextLinks ==
    \/ ProcessLinks

\* The links of one page, from its hrefs to the SiteRecord
SpecLinks == InitLinks /\ [][NextLinks]_vars

\* ------------------------------------------------------------------ one level
\* The fold closure over the URLs of one chunk, each passing the gate and fetched
RECURSIVE FoldChunk(_, _)
FoldChunk(chunk, acc) ==
    IF chunk = <<>> THEN acc
    ELSE FoldChunk(Tail(chunk), FoldSome(acc, Head(chunk), links[Head(chunk)]))

\* The pair (next_visited_urls, next_new_urls) of one level under a split
LevelResult(split) ==
    LET r == Reduce({[acc |-> FoldChunk(chunk, EmptyAcc)] : chunk \in split})
    IN  [visited |-> r.visited, new |-> r.new]

InitLevel ==
    /\ links \in Graphs
    /\ scheme = [u \in Urls |-> "https"]
    /\ robotsTxt = [h \in Hosts |-> {}]
    /\ recursion_depth = 0
    /\ now = 0
    /\ sites = {}
    /\ domains = {}
    /\ setup = "ok"
    /\ pc = "level"
    /\ run = 1
    /\ urls = {}
    /\ depth = 0
    /\ visited_urls = {}
    /\ new_urls = {}
    /\ workers = {}
    /\ summary = <<>>
    /\ hist = NewHist({}, 0)
    /\ \E frontier \in SUBSET Urls \ {{}} : rt = [frontier |-> frontier, results |-> {}]

\* The level is run under one more split of the frontier
FoldLevel ==
    /\ \E split \in Splits(rt.frontier) :
          rt' = [rt EXCEPT !.results = @ \cup {LevelResult(split)}]
    /\ UNCHANGED crawlvars

NextLevel ==
    \/ FoldLevel

\* The fold and reduce of one level over a fixed frontier and fixed pages
SpecLevel == InitLevel /\ [][NextLevel]_vars

\* ------------------------------------------------------------------ the freshness check
\* Table sites with at most one row, written at any time of the clock
SkipTables ==
    {{}} \cup {{[url |-> u, crawl_time |-> t, links_to |-> {}]} :
                   u \in Urls, t \in 0..MaxTime}

InitSkip ==
    /\ links = [u \in Urls |-> {}]
    /\ scheme = [u \in Urls |-> "https"]
    /\ robotsTxt = [h \in Hosts |-> {}]
    /\ recursion_depth = 0
    /\ now \in 0..MaxTime
    /\ sites \in SkipTables
    /\ domains = {}
    /\ setup = "ok"
    /\ pc = "gate"
    /\ run = 1
    /\ urls = {}
    /\ depth = 0
    /\ visited_urls = {}
    /\ new_urls = {}
    /\ workers = {}
    /\ summary = <<>>
    /\ hist = NewHist(sites, now)
    /\ \E u \in Urls : rt = [url |-> u, answer |-> {}]

\* should_skip_cached_url(url)
AskSkip ==
    /\ rt.answer = {}
    /\ rt' = [rt EXCEPT !.answer = {should_skip_cached_url(sites, rt.url, now)}]
    /\ UNCHANGED crawlvars

NextSkip ==
    \/ AskSkip

\* should_skip_cached_url on any table of one row, at any time
SpecSkip == InitSkip /\ [][NextSkip]_vars

\* ------------------------------------------------------------------ main.rs
\* The sequential crawler of main.rs; links holds what its get_links returns
InitMain ==
    /\ links \in Graphs
    /\ scheme = [u \in Urls |-> "https"]
    /\ robotsTxt = [h \in Hosts |-> {}]
    /\ recursion_depth = 0
    /\ now = 0
    /\ sites = {}
    /\ domains = {}
    /\ setup = "pending"
    /\ pc = "main"
    /\ run = 1
    /\ urls = {}
    /\ depth = 0
    /\ visited_urls = {}
    /\ new_urls = {}
    /\ workers = {}
    /\ summary = <<>>
    /\ hist = NewHist({}, 0)
    /\ rt = <<>>

\* main: get_html and get_links of ORIGIN_URL, then the head of iterate_links
MainSeed ==
    /\ pc = "main"
    /\ urls' = links[origin_url]
    /\ visited_urls' = {origin_url}
    /\ new_urls' = urls' \ {origin_url}
    /\ pc' = "iterate"
    /\ UNCHANGED <<web, setup, now, sites, domains, run, depth, workers, summary, hist>>

\* get_html: the unwrap on a failed request or a failed read panics
MainPanic ==
    /\ \/ pc = "main"
       \/ pc = "fold" /\ \E w \in workers : w.todo # <<>>
    /\ pc' = "panicked"
    /\ UNCHANGED <<web, setup, now, sites, domains, run, urls, loop, workers, summary, hist>>

\* iterate_links: the loop condition holds; the fold starts from
\* (visited_urls.clone(), HashSet::new()) over new_urls in its iteration order
MainLevelStart ==
    /\ pc = "iterate"
    /\ new_urls # {}
    /\ \E order \in Orders(new_urls) :
          workers' = {[todo |-> order, st |-> "fetch",
                       acc |-> [visited |-> visited_urls, new |-> {}, out |-> {}],
                       gated |-> {}]}
    /\ hist' = [hist EXCEPT !.iterations = @ + 1]
    /\ pc' = "fold"
    /\ UNCHANGED <<web, setup, now, sites, domains, run, urls, loop, summary>>

\* The fold closure on the next URL: fetch_and_process_links, visited.insert,
\* new.extend
MainStep(w) ==
    /\ pc = "fold"
    /\ w.todo # <<>>
    /\ LET u == Head(w.todo)
       IN  /\ workers' = {[w EXCEPT !.todo = Tail(w.todo),
                                    !.acc = FoldSome(w.acc, u, links[u])]}
           /\ hist' = [hist EXCEPT !.handed[u] = @ + 1]
    /\ UNCHANGED <<web, setup, now, sites, domains, pc, run, urls, loop, summary>>

\* The fold is over: visited_urls and new_urls take its pair
MainLevelEnd ==
    /\ pc = "fold"
    /\ \E w \in workers :
          /\ w.todo = <<>>
          /\ visited_urls' = w.acc.visited
          /\ new_urls' = w.acc.new
    /\ workers' = {}
    /\ pc' = "iterate"
    /\ UNCHANGED <<web, setup, now, sites, domains, run, urls, depth, summary, hist>>

\* iterate_links: new_urls is empty, main prints the runtime
MainExit ==
    /\ pc = "iterate"
    /\ new_urls = {}
    /\ pc' = "exit"
    /\ UNCHANGED <<web, setup, now, sites, domains, run, urls, loop, workers, summary, hist>>

NextMain ==
    \/ MainSeed
    \/ MainPanic
    \/ MainLevelStart
    \/ \E w \in workers : MainStep(w)
    \/ MainLevelEnd
    \/ MainExit

\* One run of the sequential crawler, over every link graph
SpecMain == InitMain /\ [][NextMain]_vars

\* ------------------------------------------------------------------ the race
\* Time passes while a worker waits for the answer to its robots.txt request
TickRobots ==
    /\ pc = "level"
    /\ \E w \in workers : w.st = "robots"
    /\ now < MaxTime
    /\ now' = now + 1
    /\ UNCHANGED <<web, setup, sites, domains, pc, run, urls, loop, workers, summary, hist>>

NextRace ==
    \/ Next
    \/ TickRobots

\* One run of crawl() whose clock advances during the robots.txt requests
SpecRace == InitRerun /\ [][NextRace]_vars

\* C11: after a failed Database::setup the run makes no fetch and no write: it
\* does not go beyond the point where the origin would be fetched.
C11_SetupFatal ==
    setup = "failed" => pc \in {"init", "seed"} /\ hist.failed = {} /\ urls = {}

\* C12: a SiteRecord write that fails to execute during a level does not abort
\* the crawl: the run never ends in a panic because of it.
C12_WriteFailureIsolated ==
    (\E f \in hist.writeFailed : f[1] >= 1) => pc # "panicked"

\* C13: a worker whose URL has a stored crawl_time that does not parse goes from
\* its gate to the fetch, as for a URL without a record: it never panics.
C13_GarbledIsAbsent ==
    \A w \in workers :
        (w.todo # <<>> /\ ~Site_read_ok(sites, Head(w.todo)))
            => w.st \in {"gate", "fetch", "write"}

\* C14: no SiteRecord is written for a URL whose response had a non-2xx status.
C14_NonSuccessSkipped ==
    hist.status \cap hist.wrote = {}

\* C15: every SiteRecord the run writes, for the origin or for a frontier URL,
\* is for a URL whose scheme is http or https.
C15_OnlyHttpRecorded ==
    \A p \in hist.wrote : scheme[p[2]] \in {"http", "https"}

\* A finished run that handed an ftp URL of its frontier to
\* fetch_and_process_links, and wrote records for other URLs
C15_Witness ==
    /\ pc = "done"
    /\ summary # <<>>
    /\ \E p \in hist.failed : p[1] >= 1 /\ scheme[p[2]] = "ftp" /\ hist.handed[p[2]] >= 1
    /\ \E p \in hist.wrote : p[1] >= 1

\* C16: a host whose robots.txt request returned a non-success status has a
\* DomainRecord all the same.
C16_EmptyRobotsRecorded ==
    \A p \in hist.robotsNone : Domain_read_into(domains, Host(p[2])) # {}

\* C17: after a run in which every robots.txt request succeeded, the host of
\* every URL the run wrote a SiteRecord for has a DomainRecord.
C17_DomainPerHost ==
    (pc = "done" /\ hist.robotsNone = {})
        => \A p \in hist.wrote : Domain_read_into(domains, Host(p[2])) # {}

\* C18: whatever the interleaving of the workers' Domain::read_into, get_robots
\* and write_domain, a host has at most one DomainRecord, exactly one once a
\* write_domain for it has happened, and the record holds the body served.
C18_OneDomainRecord ==
    /\ \A h \in Hosts : Cardinality(Domain_read_into(domains, h)) <= 1
    /\ \A p \in hist.robotsWrote : Cardinality(Domain_read_into(domains, Host(p[2]))) = 1
    /\ \A d \in domains : d.robots = robotsTxt[d.domain]

\* Two workers of one level both found no DomainRecord for the same host and
\* both wrote one, at different times
C18_Witness ==
    \E p, q \in hist.robotsWrote :
        /\ p # q
        /\ p[1] = q[1]
        /\ p[1] >= 1
        /\ Host(p[2]) = Host(q[2])
        /\ \E d \in domains : d.domain = Host(p[2]) /\ d.crawl_time > hist.runStart

\* C19: Site::read_into after Site::write_into returns the Site that was written.
C19_SiteRoundTrip ==
    (rt # <<>> /\ rt.phase = "read" /\ rt.rec \in SiteRecords) => rt.back = {rt.rec}

\* C20: Domain::read_into after Domain::write_into returns the Domain that was
\* written.
C20_DomainRoundTrip ==
    (rt # <<>> /\ rt.phase = "read" /\ rt.rec \in DomainRecords) => rt.back = {rt.rec}

\* C21: for a set of strings without commas, parsing the comma-joined string as
\* Site::read_into does gives back the set.
C21_LinksRoundTrip ==
    (rt # <<>> /\ rt.phase = "read" /\ rt.rec \in LinkSets) => rt.back = {rt.rec}

\* The rows a Site can be stored as, one for each iteration order of links_to
RowsOf(site) ==
    {[url |-> site.url, crawl_time |-> to_rfc3339(site.crawl_time), links_to |-> Join[o]] :
        o \in Orders(site.links_to)}

\* C22: after any sequence of writes table sites has one row for each url
\* written, the row of the last write for that url; and a Site written twice in
\* a row leaves a table that writing it once could have left.
C22_IdempotentUpsert ==
    LET n == Len(rt.log)
    IN  /\ \A r1, r2 \in UpsertTable : r1.url = r2.url => r1 = r2
        /\ \A i \in 1..n :
              (\A j \in (i + 1)..n : rt.log[j].url # rt.log[i].url)
                  => \E r \in UpsertTable : r \in RowsOf(rt.log[i])
        /\ \A r \in UpsertTable : \E i \in 1..n : r.url = rt.log[i].url
        /\ (n >= 2 /\ rt.log[n] = rt.log[n - 1])
              => \E r \in RowsOf(rt.log[n]) :
                    UpsertTable = {x \in rt.tables[n - 1] : x.url # r.url} \cup {r}

\* A url written with one crawl_time, then with another, then once more with
\* the same Site, which has two links, while a second url has its own row
C22_Witness ==
    /\ Len(rt.log) = 3
    /\ rt.log[1].url = rt.log[2].url
    /\ rt.log[1].crawl_time # rt.log[2].crawl_time
    /\ rt.log[3] = rt.log[2]
    /\ Cardinality(rt.log[3].links_to) = 2
    /\ Cardinality(UpsertTable) = 1

\* C23: with recursion_depth 0 and an empty store, once the origin is fetched
\* the run writes the origin's SiteRecord and no other, runs no level, hands no
\* URL to fetch_and_process_links, and its summary counts one site.
C23_DepthZero ==
    (recursion_depth = 0 /\ hist.sitesAtStart = {} /\ <<0, origin_url>> \in hist.wrote)
        => /\ hist.iterations = 0
           /\ hist.wrote = {<<0, origin_url>>}
           /\ \A u \in Urls : hist.handed[u] = 0
           /\ {r.url : r \in sites} = {origin_url}
           /\ (pc = "done" => summary # <<>> /\ summary[1] = 1)

\* A finished run of depth 0 whose origin links to both other pages
C23_Witness ==
    /\ recursion_depth = 0
    /\ pc = "done"
    /\ links[origin_url] = {P1, P2}
    /\ summary # <<>>
    /\ summary[1] = 1

\* b to the power e
RECURSIVE Pow(_, _)
Pow(b, e) == IF e = 0 THEN 1 ELSE b * Pow(b, e - 1)

\* 1 + f + f^2 + ... + f^d
RECURSIVE GeomSum(_, _)
GeomSum(f, d) == IF d = 0 THEN 1 ELSE Pow(f, d) + GeomSum(f, d - 1)

\* The largest number of outbound links of a page
FanOutMax ==
    CHOOSE n \in 0..Cardinality(Urls) :
        /\ \A u \in Urls : Cardinality(links[u]) <= n
        /\ \E u \in Urls : Cardinality(links[u]) = n

\* C24 as stated: after a run the visited set of iterate_links has at most
\* 1 + FanOutMax^recursion_depth members.
C24_VisitedBound ==
    pc \in {"summarize", "done"}
        => Cardinality(visited_urls) <= 1 + Pow(FanOutMax, recursion_depth)

\* C24 amended: the visited set of iterate_links never has more members than a
\* tree of depth recursion_depth and fan-out FanOutMax has nodes.
C24_VisitedTreeBound ==
    Cardinality(visited_urls) <= GeomSum(FanOutMax, recursion_depth)

\* A finished run of depth 2 over a chain of three pages: three URLs visited,
\* the number of nodes of the tree and more than 1 + 1^2
C24_Witness ==
    /\ pc = "done"
    /\ recursion_depth = 2
    /\ FanOutMax = 1
    /\ Cardinality(visited_urls) = 3

\* C25: a page that holds one target of the origin's host both as an absolute
\* URL and as a root-relative href gets a single entry in links_to.
C25_RelativeCollapses ==
    (rt # <<>> /\ rt.phase = "written")
        => \A h1, h2 \in rt.page :
              (/\ rt.page = {h1, h2}
               /\ h1.kind = "absolute" /\ h1.host = rt.origin.host
               /\ h2.kind = "root-relative" /\ h2.path = h1.path)
                  => Cardinality(rt.site.links_to) = 1

\* The entry of links_to an href of an accepted form stands for
ExpectedLink(origin, h) ==
    CASE h.kind = "absolute"        -> h.text
      [] h.kind = "scheme-relative" -> <<"https:">> \o h.text
      [] h.kind = "root-relative"   -> origin.text \o h.text

C26_NeverDeletes ==
    [][/\ \/ sites' = sites
          \/ /\ {r.url : r \in sites} \subseteq {r.url : r \in sites'}
             /\ \A u \in Urls : Cardinality(Site_read_into(sites', u)) <= 1
             /\ Cardinality({u \in Urls :
                                Site_read_into(sites, u) # Site_read_into(sites', u)}) <= 1
       /\ \/ domains' = domains
          \/ /\ {d.domain : d \in domains} \subseteq {d.domain : d \in domains'}
             /\ \A h \in Hosts : Cardinality(Domain_read_into(domains', h)) <= 1
             /\ Cardinality({h \in Hosts :
                                Domain_read_into(domains, h) # Domain_read_into(domains', h)}) <= 1
      ]_vars

\* A later run has replaced the record of one url, and the record another url
\* had when the run started is still there
C26_Witness ==
    \E r \in sites, r0 \in hist.sitesAtStart :
        /\ r.url = r0.url
        /\ r.crawl_time > r0.crawl_time
        /\ \E r2 \in sites \cap hist.sitesAtStart : r2.url # r.url

\* C28: for a fixed frontier and fixed page contents every split of the frontier
\* into chunks and every order inside a chunk gives the same pair (visited,
\* next frontier).
C28_LevelDeterministic ==
    (rt # <<>>) => Cardinality(rt.results) <= 1

\* C29: should_skip_cached_url answers true when the URL has a record whose age
\* is less than one day, and false when it has none or its record is one day
\* old or older.
C29_SkipStrict ==
    (rt # <<>> /\ rt.answer # {})
        => LET rows == {r \in sites : r.url = rt.url}
           IN  /\ (rows = {}) => rt.answer = {FALSE}
               /\ \A r \in rows : (now - r.crawl_time < Day) => rt.answer = {TRUE}
               /\ \A r \in rows : (now - r.crawl_time >= Day) => rt.answer = {FALSE}

\* The check has answered false for a URL whose record is exactly one day old
C29_Witness ==
    /\ rt # <<>>
    /\ rt.answer = {FALSE}
    /\ \E r \in sites : r.url = rt.url /\ now - r.crawl_time = Day

\* C30: the sequential crawler calls fetch_and_process_links at most once for
\* each URL.
C30_MainProcessedOnce ==
    pc \in {"iterate", "fold", "exit", "panicked"} => \A u \in Urls : hist.handed[u] <= 1

\* The calls of get_robots made by is_allowed_to_scrape so far in this run
RobotsRequests == {p \in hist.robotsWrote \cup hist.robotsNone : p[1] >= 1}

\* C31: a worker goes on to request robots.txt only when table domains has no
\* row for the host at its lookup, it always does so when the URL has a fresh
\* SiteRecord and the host has no row, and every request of is_allowed_to_scrape
\* made while workers run comes from such a worker; a row of any age stops the
\* request.
C31_RobotsOnlyWhenUnknown ==
    [][\/ workers' = workers
       \/ LET lookup == workers \ workers'
              next   == workers' \ workers
          IN  /\ \A w \in next :
                    w.st = "robots" => ~\E d \in domains : d.domain = Host(Head(w.todo))
              /\ \A w \in lookup :
                    (/\ w.st = "gate"
                     /\ ~\E d \in domains : d.domain = Host(Head(w.todo))
                     /\ should_skip_cached_url(sites, Head(w.todo), now))
                        => \E v \in next : v.st = "robots" /\ v.todo = w.todo
              /\ \/ /\ hist'.robotsWrote = hist.robotsWrote
                    /\ hist'.robotsNone = hist.robotsNone
                 \/ \E w \in lookup : w.st = "robots"
      ]_vars

\* In a later run a worker has decided on a URL with a fresh SiteRecord from the
\* DomainRecord an earlier run left, a day old or older, without any request
C31_Witness ==
    /\ run = 2
    /\ pc = "level"
    /\ RobotsRequests = {}
    /\ \E w \in workers : \E g \in w.gated :
          /\ g.skip
          /\ g.allowed # "unevaluated"
          /\ \E d \in domains : d.domain = Host(g.url) /\ d.crawl_time <= now - Day

\* The URLs of the chunk a worker was handed: those still to do, those folded
\* and those the gate dropped
ChunkOf(w) ==
    {w.todo[i] : i \in 1..Len(w.todo)} \cup w.acc.visited \cup {g.url : g \in w.gated}

\* C32: within a level the workers' chunks are pairwise disjoint and no chunk
\* holds a URL twice, so no URL is fetched or written by two tasks of the level;
\* once the level's writes are done the row of every URL written in it is the
\* one its single task wrote, the page's links stamped with a time of this run,
\* whatever the order of the writes.
C32_LevelKeysDistinct ==
    pc = "level" =>
        /\ \A w1, w2 \in workers : w1 # w2 => ChunkOf(w1) \cap ChunkOf(w2) = {}
        /\ \A w \in workers :
              /\ \A i, j \in 1..Len(w.todo) : w.todo[i] = w.todo[j] => i = j
              /\ \A i \in 1..Len(w.todo) :
                    /\ w.todo[i] \notin w.acc.visited
                    /\ i > 1 => w.todo[i] \notin {g.url : g \in w.gated}
        /\ UNION {ChunkOf(w) : w \in workers} = new_urls
        /\ AllDone(workers) =>
              \A p \in hist.wrote : p[1] = depth + 1 =>
                  \E t \in hist.runStart..now :
                      Site_read_into(sites, p[2]) =
                          {[url |-> p[2], crawl_time |-> t, links_to |-> links[p[2]]]}

\* Two workers of one level have each written a SiteRecord
C32_Witness ==
    /\ pc = "level"
    /\ \E w1, w2 \in workers :
          /\ w1 # w2
          /\ \E u1 \in w1.acc.visited, u2 \in w2.acc.visited :
                /\ u1 # u2
                /\ <<depth + 1, u1>> \in hist.wrote
                /\ <<depth + 1, u2>> \in hist.wrote

====
